---------------------------- MODULE Spec2Model ----------------------------
(***************************************************************************)
(* waitfree-sync: the wait-free SPSC queue (src/src/spsc.rs) and the       *)
(* triple buffer (src/src/triple_buffer.rs).                               *)
(*                                                                         *)
(* Each primitive has two handles, each used by one thread.  A thread's    *)
(* position inside an operation is a program counter (pcS, pcR, pcW, pcX). *)
(* Atomic loads, stores and swaps are single steps.  An access to an       *)
(* UnsafeCell payload is not atomic: it is a begin step and an end step,   *)
(* and two accesses to the same cell by the two threads that overlap are a *)
(* data race, whose outcome is any value (RacyOutcomes).                   *)
(*                                                                         *)
(* Payloads are opaque to both primitives (they are generic in T and never *)
(* inspect a value), so the k-th call of try_send / write carries the      *)
(* token k, as the repository's tests send [i; 50] for i in 0..COUNT.      *)
(* Option<T> is a sequence of length at most one: None is <<>>, Some(v) is *)
(* <<v>>.                                                                  *)
(***************************************************************************)
EXTENDS Integers, Sequences, FiniteSets, TLC

(* Bounds of the model. *)
MaxCapacity == 4
MaxSends == 8
MaxWrites == 5
UsizeBits == 8
MaxGuardCalls == 8
MaxGuardSets == 3

VARIABLES
    capacity,   \* the argument of spsc()
    qstate,     \* "new" before spsc() ran, then "live" or "panicked"
    mem,        \* Spsc.mem: slot index -> [value, occupied]
    mask,       \* Spsc.mask
    strong,     \* strong count of the Arc<Spsc<T>>
    freed,      \* how many times the Spsc was dropped by the Arc
    write,      \* Sender.write
    read,       \* Receiver.read
    sAlive,     \* the Sender handle exists
    rAlive,     \* the Receiver handle exists
    pcS,        \* position of the sender thread
    pcR,        \* position of the receiver thread
    sData,      \* try_send's argument `data`
    sRet,       \* what the last try_send returned
    rVal,       \* try_recv's local `val`
    rRet,       \* what the last try_recv / peek returned
    calls,      \* number of try_send calls so far
    accepted,   \* history: items published by try_send, in order
    received,   \* history: items whose slot try_recv released, in order
    peeked,     \* history: the item peek returned since the last try_recv
    sRaced,     \* the sender's payload access in progress overlapped one of the receiver
    rRaced,     \* the receiver's payload access in progress overlapped one of the sender
    xmem,        \* Slot.mem of the triple buffer: cell index -> Option<T>
    latest_free, \* Slot.latest_free: index in bits 0-1, new-data flag in bit 2
    read_idx,    \* Reader.read_idx
    write_idx,   \* Writer.write_idx
    last_written, \* Writer.last_written: Option<usize>
    xstrong,     \* strong count of the Arc<TripleBufferRaw<T>>
    xfreed,      \* how many times the leaked Slot was freed by TripleBufferRaw::drop
    wAlive,      \* the Writer handle exists
    xAlive,      \* the Reader handle exists
    pcW,         \* position of the writer thread
    pcX,         \* position of the reader thread
    wData,       \* write's argument `data`
    wRet,        \* what the last Writer::read returned
    xRet,        \* what the last Reader::read returned
    xHasNew,     \* Reader::read's local `has_new_data`
    writes,      \* number of write calls so far
    xFresh,      \* history: the number of writes at the call of the reader's read in
                 \* progress or last returned, when no write was in progress then; else 0
    wRaced,      \* the writer's cell access in progress overlapped one of the reader
    xRaced,      \* the reader's cell access in progress overlapped one of the writer
    xQuietRet,   \* history: a reader read has returned and no write has swapped since
    xQuietLoad,  \* history: a reader read has loaded the word and no write has swapped since
    xSinceRet,   \* history: xQuietRet at the call of the reader's read in progress
    xSinceLoad,  \* history: xQuietLoad at the load of the reader's read in progress
    has_data,    \* InitialWriteGuard.has_data
    gLog,        \* history: the results of the has_data() calls, in call order
    gSets,       \* history: the number of set_has_data() calls
    sCap,        \* what the last Sender::capacity returned
    rCap         \* what the last Receiver::capacity returned

qvars == <<capacity, qstate, mem, mask, strong, freed, write, read, sAlive, rAlive,
           pcS, pcR, sData, sRet, rVal, rRet, calls, accepted, received, peeked,
           sRaced, rRaced>>

xvars == <<xmem, latest_free, read_idx, write_idx, last_written, xstrong, xfreed,
           wAlive, xAlive, pcW, pcX, wData, wRet, xRet, xHasNew, writes, xFresh,
           wRaced, xRaced>>

hvars == <<xQuietRet, xQuietLoad, xSinceRet, xSinceLoad>>

cvars == <<sCap, rCap>>

gvars == <<has_data, gLog, gSets>>

vars == <<qvars, xvars, cvars, hvars, gvars>>

-----------------------------------------------------------------------------
(* Values *)

None == <<>>
Some(v) == <<v>>
Torn == 0
Tokens == 1..MaxSends
RacyOutcomes == {None, Some(Torn)} \cup {Some(v) : v \in Tokens}
XTokens == 1..MaxWrites
XRacyOutcomes == {None, Some(Torn)} \cup {Some(v) : v \in XTokens}

Ok == <<"Ok">>
NoSpaceLeftError(x) == <<"Err", x>>
NoResult == <<"none">>

Usize == 2 ^ UsizeBits

RECURSIVE BitAnd(_, _)
BitAnd(a, b) ==
    IF a = 0 \/ b = 0 THEN 0
    ELSE (a % 2) * (b % 2) + 2 * BitAnd(a \div 2, b \div 2)

RECURSIVE BitOr(_, _)
BitOr(a, b) ==
    IF a = 0 THEN b
    ELSE IF b = 0 THEN a
    ELSE (IF a % 2 = 1 \/ b % 2 = 1 THEN 1 ELSE 0) + 2 * BitOr(a \div 2, b \div 2)

wrapping_sub(x, y) == (x - y) % Usize

(* faulty variant: 1 passes, as it does usize::is_power_of_two *)
is_power_of_two_from_one(x) ==
    LET c == wrapping_sub(x, 1)
    IN  (x # 0) /\ (BitAnd(x, c) = 0)

is_power_of_two(x) ==
    LET c == wrapping_sub(x, 1)
    IN  (x # 0) /\ (x # 1) /\ (BitAnd(x, c) = 0)

-----------------------------------------------------------------------------
(* The queue: construction *)

Slot_new == [value |-> None, occupied |-> FALSE]

Spsc_new_mem(size) == [i \in 0..(size - 1) |-> Slot_new]
Spsc_new_mask(size) == size - 1

Spsc_capacity == mask + 1

(* Before spsc() is called: nothing is built. *)
QStart ==
    /\ qstate = "new"
    /\ mem = [i \in {} |-> Slot_new]
    /\ mask = 0
    /\ strong = 0
    /\ freed = 0
    /\ write = 0
    /\ read = 0
    /\ sAlive = FALSE
    /\ rAlive = FALSE
    /\ pcS = "idle"
    /\ pcR = "idle"
    /\ sData = 0
    /\ sRet = NoResult
    /\ rVal = None
    /\ rRet = None
    /\ calls = 0
    /\ accepted = <<>>
    /\ received = <<>>
    /\ peeked = None
    /\ sRaced = FALSE
    /\ rRaced = FALSE
    /\ sCap = None
    /\ rCap = None

QInit ==
    /\ capacity \in 0..MaxCapacity
    /\ QStart

(* spsc(capacity): panics unless the capacity is a power of two, else builds *)
(* the store and the two handles, both cursors at 0.                         *)
spsc ==
    /\ qstate = "new"
    /\ IF ~is_power_of_two(capacity)
       THEN /\ qstate' = "panicked"
            /\ UNCHANGED <<mem, mask, strong, sAlive, rAlive>>
       ELSE /\ qstate' = "live"
            /\ mem' = Spsc_new_mem(capacity)
            /\ mask' = Spsc_new_mask(capacity)
            /\ strong' = 2
            /\ sAlive' = TRUE
            /\ rAlive' = TRUE
    /\ UNCHANGED <<capacity, freed, write, read, pcS, pcR, sData, sRet, rVal, rRet,
                   calls, accepted, received, peeked, sRaced, rRaced>>
    /\ UNCHANGED <<xvars, cvars, hvars, gvars>>


(* (faulty variant: every drop of a handle frees the slots) *)
ArcDropEager ==
    /\ strong' = strong - 1
    /\ freed' = freed + 1
    /\ mem' = [i \in {} |-> Slot_new]

(* Drop of a handle: the Arc's strong count goes down by one, and the handle *)
(* that brings it to zero drops the Spsc and with it the slots.              *)
ArcDrop ==
    /\ strong' = strong - 1
    /\ IF strong = 1
       THEN /\ freed' = freed + 1
            /\ mem' = [i \in {} |-> Slot_new]
       ELSE UNCHANGED <<freed, mem>>

DropSender ==
    /\ sAlive
    /\ pcS = "idle"
    /\ sAlive' = FALSE
    /\ ArcDrop
    /\ UNCHANGED <<capacity, qstate, mask, write, read, rAlive, pcS, pcR, sData, sRet,
                   rVal, rRet, calls, accepted, received, peeked, sRaced, rRaced>>
    /\ UNCHANGED <<xvars, cvars, hvars, gvars>>

DropReceiver ==
    /\ rAlive
    /\ pcR = "idle"
    /\ rAlive' = FALSE
    /\ ArcDrop
    /\ UNCHANGED <<capacity, qstate, mask, write, read, sAlive, pcS, pcR, sData, sRet,
                   rVal, rRet, calls, accepted, received, peeked, sRaced, rRaced>>
    /\ UNCHANGED <<xvars, cvars, hvars, gvars>>

(* Sender::capacity and Receiver::capacity: self.spsc.capacity() *)
SenderCapacity ==
    /\ sAlive
    /\ pcS = "idle"
    /\ sCap' = Some(Spsc_capacity)
    /\ UNCHANGED <<qvars, xvars, hvars, gvars, rCap>>

ReceiverCapacity ==
    /\ rAlive
    /\ pcR = "idle"
    /\ rCap' = Some(Spsc_capacity)
    /\ UNCHANGED <<qvars, xvars, hvars, gvars, sCap>>

-----------------------------------------------------------------------------
(* The queue: Sender::try_send *)

(* let wpos = self.write & self.spsc.mask *)
wpos == BitAnd(write, mask)

(* let rpos = self.read & self.spsc.mask *)
rpos == BitAnd(read, mask)

(* slot.occupied.load(Ordering::Acquire), in try_send, try_recv and peek.   *)
(* Each definition that models a line of code may be preceded by faulty     *)
(* variants of it (here: a sender that never sees a set flag, a receiver    *)
(* that never sees a clear one); the properties are shown to fail on them.  *)
SendNeverFull == FALSE
SendSeesOccupied == mem[wpos].occupied

RecvAlwaysOccupied == TRUE
RecvSeesOccupied == mem[rpos].occupied

PeekSeesOccupied == mem[rpos].occupied

(* the flag values of slot.occupied.store(true, Release) in try_send and of *)
(* slot.occupied.store(false, Release) in try_recv (faulty variant: the     *)
(* receiver leaves the flag set)                                            *)
send_store_value_clear == FALSE
send_store_value == TRUE

recv_store_value_set == TRUE
recv_store_value == FALSE

(* self.write += 1 on a usize, in a build without overflow checks: the sum *)
(* wraps (faulty variant: the cursor is not advanced)                      *)
write_inc_stuck(w) == w
write_inc(w) == (w + 1) % Usize

(* self.read += 1, likewise (faulty variants: advanced by two, not advanced) *)
read_inc_skip(r) == r + 2
read_inc_stuck(r) == r
read_inc(r) == (r + 1) % Usize

(* The payload accesses in progress. *)
SenderAccessing(pos) == pcS = "s_writing" /\ wpos = pos
ReceiverAccessing(pos) == pcR \in {"r_taking", "p_reading"} /\ rpos = pos

(* The k-th call passes the token k. *)
TrySendCall ==
    /\ sAlive
    /\ pcS = "idle"
    /\ calls < MaxSends
    /\ calls' = calls + 1
    /\ sData' = calls + 1
    /\ pcS' = "s_load"
    /\ UNCHANGED <<capacity, qstate, mem, mask, strong, freed, write, read, sAlive,
                   rAlive, pcR, sRet, rVal, rRet, accepted, received, peeked,
                   sRaced, rRaced>>
    /\ UNCHANGED <<xvars, cvars, hvars, gvars>>

(* SendLoad with the cursor advanced before the flag is tested *)
SendLoadAdvancing ==
    /\ pcS = "s_load"
    /\ IF SendSeesOccupied
       THEN /\ sRet' = NoSpaceLeftError(sData)
            /\ sData' = 0
            /\ write' = write + 1
            /\ pcS' = "idle"
       ELSE /\ pcS' = "s_write"
            /\ UNCHANGED <<sRet, sData, write>>
    /\ UNCHANGED <<capacity, qstate, mem, mask, strong, freed, read, sAlive,
                   rAlive, pcR, rVal, rRet, calls, accepted, received, peeked,
                   sRaced, rRaced>>
    /\ UNCHANGED <<xvars, cvars, hvars, gvars>>

(* if slot.occupied.load(Acquire) { Err(NoSpaceLeftError(data)) } else ... *)
SendLoadWaiting ==
    /\ pcS = "s_load"
    /\ IF SendSeesOccupied
       THEN UNCHANGED <<pcS, sRet>>
       ELSE /\ pcS' = "s_write"
            /\ UNCHANGED sRet
    /\ UNCHANGED <<capacity, qstate, mem, mask, strong, freed, write, read, sAlive,
                   rAlive, pcR, sData, rVal, rRet, calls, accepted, received, peeked,
                   sRaced, rRaced>>
    /\ UNCHANGED <<xvars, cvars, hvars, gvars>>

SendLoad ==
    /\ pcS = "s_load"
    /\ IF SendSeesOccupied
       THEN /\ sRet' = NoSpaceLeftError(sData)
            /\ sData' = 0
            /\ pcS' = "idle"
       ELSE /\ pcS' = "s_write"
            /\ UNCHANGED <<sRet, sData>>
    /\ UNCHANGED <<capacity, qstate, mem, mask, strong, freed, write, read, sAlive,
                   rAlive, pcR, rVal, rRet, calls, accepted, received, peeked,
                   sRaced, rRaced>>
    /\ UNCHANGED <<xvars, cvars, hvars, gvars>>

(* slot.value.get().write(Some(data)): the write begins ... *)
SendWriteBegin ==
    /\ pcS = "s_write"
    /\ pcS' = "s_writing"
    /\ sRaced' = ReceiverAccessing(wpos)
    /\ rRaced' = (rRaced \/ ReceiverAccessing(wpos))
    /\ UNCHANGED <<capacity, qstate, mem, mask, strong, freed, write, read, sAlive,
                   rAlive, pcR, sData, sRet, rVal, rRet, calls, accepted, received,
                   peeked>>
    /\ UNCHANGED <<xvars, cvars, hvars, gvars>>

(* ... and ends: the slot holds Some(data), or anything after a race. *)
SendWriteEnd ==
    /\ pcS = "s_writing"
    /\ \E v \in (IF sRaced THEN RacyOutcomes ELSE {Some(sData)}) :
           mem' = [mem EXCEPT ![wpos].value = v]
    /\ pcS' = "s_store"
    /\ sRaced' = FALSE
    /\ UNCHANGED <<capacity, qstate, mask, strong, freed, write, read, sAlive,
                   rAlive, pcR, sData, sRet, rVal, rRet, calls, accepted, received,
                   peeked, rRaced>>
    /\ UNCHANGED <<xvars, cvars, hvars, gvars>>

(* slot.occupied.store(true, Ordering::Release): the item is published *)
SendStore ==
    /\ pcS = "s_store"
    /\ mem' = [mem EXCEPT ![wpos].occupied = send_store_value]
    /\ accepted' = Append(accepted, sData)
    /\ pcS' = "s_inc"
    /\ UNCHANGED <<capacity, qstate, mask, strong, freed, write, read, sAlive,
                   rAlive, pcR, sData, sRet, rVal, rRet, calls, received, peeked,
                   sRaced, rRaced>>
    /\ UNCHANGED <<xvars, cvars, hvars, gvars>>

(* self.write += 1; Ok(()) *)
(* In a build with overflow checks the addition panics at usize::MAX: *)
(* the cursor is left as it was and the call does not return.         *)
SendInc ==
    /\ pcS = "s_inc"
    /\ \/ /\ write' = write_inc(write)
          /\ sRet' = Ok
          /\ sData' = 0
          /\ pcS' = "idle"
       \/ /\ write = Usize - 1
          /\ pcS' = "panicked"
          /\ UNCHANGED <<write, sRet, sData>>
    /\ UNCHANGED <<capacity, qstate, mem, mask, strong, freed, read, sAlive, rAlive,
                   pcR, rVal, rRet, calls, accepted, received, peeked, sRaced, rRaced>>
    /\ UNCHANGED <<xvars, cvars, hvars, gvars>>

-----------------------------------------------------------------------------
(* The queue: Receiver::try_recv *)

TryRecvCall ==
    /\ rAlive
    /\ pcR = "idle"
    /\ pcR' = "r_load"
    /\ UNCHANGED <<capacity, qstate, mem, mask, strong, freed, write, read, sAlive,
                   rAlive, pcS, sData, sRet, rVal, rRet, calls, accepted, received,
                   peeked, sRaced, rRaced>>
    /\ UNCHANGED <<xvars, cvars, hvars, gvars>>

(* if !slot.occupied.load(Acquire) { None } else ... *)
RecvLoad ==
    /\ pcR = "r_load"
    /\ IF ~RecvSeesOccupied
       THEN /\ rRet' = None
            /\ peeked' = None
            /\ pcR' = "idle"
       ELSE /\ pcR' = "r_take"
            /\ UNCHANGED <<rRet, peeked>>
    /\ UNCHANGED <<capacity, qstate, mem, mask, strong, freed, write, read, sAlive,
                   rAlive, pcS, sData, sRet, rVal, calls, accepted, received,
                   sRaced, rRaced>>
    /\ UNCHANGED <<xvars, cvars, hvars, gvars>>

(* let val = slot.value.get().replace(None): the access begins ... *)
RecvTakeBegin ==
    /\ pcR = "r_take"
    /\ pcR' = "r_taking"
    /\ rRaced' = SenderAccessing(rpos)
    /\ sRaced' = (sRaced \/ SenderAccessing(rpos))
    /\ UNCHANGED <<capacity, qstate, mem, mask, strong, freed, write, read, sAlive,
                   rAlive, pcS, sData, sRet, rVal, rRet, calls, accepted, received,
                   peeked>>
    /\ UNCHANGED <<xvars, cvars, hvars, gvars>>

(* (faulty variant: the payload is cloned and left in the slot) *)
RecvTakeEndCloning ==
    /\ pcR = "r_taking"
    /\ rVal' = mem[rpos].value
    /\ pcR' = "r_store"
    /\ rRaced' = FALSE
    /\ UNCHANGED <<capacity, qstate, mem, mask, strong, freed, write, read, sAlive,
                   rAlive, pcS, sData, sRet, rRet, calls, accepted, received,
                   peeked, sRaced>>
    /\ UNCHANGED <<xvars, cvars, hvars, gvars>>

(* ... and ends: val is what the slot held and the slot holds None, or *)
(* anything after a race.                                              *)
RecvTakeEnd ==
    /\ pcR = "r_taking"
    /\ \E v \in (IF rRaced THEN RacyOutcomes ELSE {mem[rpos].value}) :
           rVal' = v
    /\ \E w \in (IF rRaced THEN RacyOutcomes ELSE {None}) :
           mem' = [mem EXCEPT ![rpos].value = w]
    /\ pcR' = "r_store"
    /\ rRaced' = FALSE
    /\ UNCHANGED <<capacity, qstate, mask, strong, freed, write, read, sAlive,
                   rAlive, pcS, sData, sRet, rRet, calls, accepted, received,
                   peeked, sRaced>>
    /\ UNCHANGED <<xvars, cvars, hvars, gvars>>

(* slot.occupied.store(false, Ordering::Release): the slot is released *)
RecvStore ==
    /\ pcR = "r_store"
    /\ mem' = [mem EXCEPT ![rpos].occupied = recv_store_value]
    /\ received' = received \o rVal
    /\ pcR' = "r_inc"
    /\ UNCHANGED <<capacity, qstate, mask, strong, freed, write, read, sAlive,
                   rAlive, pcS, sData, sRet, rVal, rRet, calls, accepted, peeked,
                   sRaced, rRaced>>
    /\ UNCHANGED <<xvars, cvars, hvars, gvars>>

(* self.read += 1; val *)
(* In a build with overflow checks the addition panics at usize::MAX. *)
RecvInc ==
    /\ pcR = "r_inc"
    /\ \/ /\ read' = read_inc(read)
          /\ rRet' = rVal
          /\ rVal' = None
          /\ peeked' = None
          /\ pcR' = "idle"
       \/ /\ read = Usize - 1
          /\ pcR' = "panicked"
          /\ UNCHANGED <<read, rRet, rVal, peeked>>
    /\ UNCHANGED <<capacity, qstate, mem, mask, strong, freed, write, sAlive, rAlive,
                   pcS, sData, sRet, calls, accepted, received, sRaced, rRaced>>
    /\ UNCHANGED <<xvars, cvars, hvars, gvars>>

-----------------------------------------------------------------------------
(* The queue: Receiver::peek *)

PeekCall ==
    /\ rAlive
    /\ pcR = "idle"
    /\ pcR' = "p_load"
    /\ UNCHANGED <<capacity, qstate, mem, mask, strong, freed, write, read, sAlive,
                   rAlive, pcS, sData, sRet, rVal, rRet, calls, accepted, received,
                   peeked, sRaced, rRaced>>
    /\ UNCHANGED <<xvars, cvars, hvars, gvars>>

(* if !slot.occupied.load(Acquire) { None } else ... *)
PeekLoad ==
    /\ pcR = "p_load"
    /\ IF ~PeekSeesOccupied
       THEN /\ rRet' = None
            /\ pcR' = "idle"
       ELSE /\ pcR' = "p_read"
            /\ UNCHANGED rRet
    /\ UNCHANGED <<capacity, qstate, mem, mask, strong, freed, write, read, sAlive,
                   rAlive, pcS, sData, sRet, rVal, calls, accepted, received,
                   peeked, sRaced, rRaced>>
    /\ UNCHANGED <<xvars, cvars, hvars, gvars>>

(* let val = &*slot.value.get(): the read through the reference begins ... *)
PeekReadBegin ==
    /\ pcR = "p_read"
    /\ pcR' = "p_reading"
    /\ rRaced' = SenderAccessing(rpos)
    /\ sRaced' = (sRaced \/ SenderAccessing(rpos))
    /\ UNCHANGED <<capacity, qstate, mem, mask, strong, freed, write, read, sAlive,
                   rAlive, pcS, sData, sRet, rVal, rRet, calls, accepted, received,
                   peeked>>
    /\ UNCHANGED <<xvars, cvars, hvars, gvars>>

(* PeekReadEnd with the value moved out of the slot (take() for as_ref()) *)
PeekReadEndTaking ==
    /\ pcR = "p_reading"
    /\ rRet' = mem[rpos].value
    /\ peeked' = mem[rpos].value
    /\ mem' = [mem EXCEPT ![rpos].value = None]
    /\ pcR' = "idle"
    /\ rRaced' = FALSE
    /\ UNCHANGED <<capacity, qstate, mask, strong, freed, write, read, sAlive,
                   rAlive, pcS, sData, sRet, rVal, calls, accepted, received, sRaced>>
    /\ UNCHANGED <<xvars, cvars, hvars, gvars>>

(* ... and ends: val.as_ref() *)
PeekReadEnd ==
    /\ pcR = "p_reading"
    /\ \E v \in (IF rRaced THEN RacyOutcomes ELSE {mem[rpos].value}) :
           /\ rRet' = v
           /\ peeked' = v
    /\ pcR' = "idle"
    /\ rRaced' = FALSE
    /\ UNCHANGED <<capacity, qstate, mem, mask, strong, freed, write, read, sAlive,
                   rAlive, pcS, sData, sRet, rVal, calls, accepted, received, sRaced>>
    /\ UNCHANGED <<xvars, cvars, hvars, gvars>>

-----------------------------------------------------------------------------
(* The triple buffer: construction *)

NEW_DATA_FLAG == 4
INDEX_MASK == 3

Cells == 0..2

(* Slot::new, TripleBufferRaw::new, Reader::new, Writer::new *)
XInit ==
    /\ xmem = [i \in Cells |-> None]
    /\ latest_free = 0
    /\ read_idx = 1
    /\ write_idx = 2
    /\ last_written = None
    /\ xstrong = 2
    /\ xfreed = 0
    /\ wAlive = TRUE
    /\ xAlive = TRUE
    /\ pcW = "idle"
    /\ pcX = "idle"
    /\ wData = 0
    /\ wRet = None
    /\ xRet = None
    /\ xHasNew = FALSE
    /\ writes = 0
    /\ xFresh = 0
    /\ wRaced = FALSE
    /\ xRaced = FALSE
    /\ xQuietRet = FALSE
    /\ xQuietLoad = FALSE
    /\ xSinceRet = FALSE
    /\ xSinceLoad = FALSE

(* Drop of a handle: the handle that brings the Arc's strong count to zero *)
(* runs TripleBufferRaw::drop, which frees the Slot.                       *)
XArcDrop ==
    /\ xstrong' = xstrong - 1
    /\ IF xstrong = 1
       THEN /\ xfreed' = xfreed + 1
            /\ xmem' = [i \in {} |-> None]
       ELSE UNCHANGED <<xfreed, xmem>>

DropWriter ==
    /\ wAlive
    /\ pcW = "idle"
    /\ wAlive' = FALSE
    /\ XArcDrop
    /\ UNCHANGED <<latest_free, read_idx, write_idx, last_written, xAlive, pcW, pcX,
                   wData, wRet, xRet, xHasNew, writes, xFresh, wRaced, xRaced>>
    /\ UNCHANGED <<qvars, cvars, gvars>>
    /\ UNCHANGED hvars

DropReader ==
    /\ xAlive
    /\ pcX = "idle"
    /\ xAlive' = FALSE
    /\ XArcDrop
    /\ UNCHANGED <<latest_free, read_idx, write_idx, last_written, wAlive, pcW, pcX,
                   wData, wRet, xRet, xHasNew, writes, xFresh, wRaced, xRaced>>
    /\ UNCHANGED <<qvars, cvars, gvars>>
    /\ UNCHANGED hvars

-----------------------------------------------------------------------------
(* The triple buffer: Writer::write *)

(* self.write_idx & INDEX_MASK *)
write_cell == BitAnd(write_idx, INDEX_MASK)

WriteInProgress == pcW \in {"w_insert", "w_inserting", "w_last", "w_swap"}
WriterAccessing(i) == pcW = "w_inserting" /\ write_cell = i
ReaderAccessing(i) == pcX = "x_cloning" /\ read_idx = i

(* The k-th call passes the token k. *)
WriteCall ==
    /\ wAlive
    /\ pcW = "idle"
    /\ writes < MaxWrites
    /\ writes' = writes + 1
    /\ wData' = writes + 1
    /\ pcW' = "w_insert"
    /\ UNCHANGED <<xmem, latest_free, read_idx, write_idx, last_written, xstrong,
                   xfreed, wAlive, xAlive, pcX, wRet, xRet, xHasNew, xFresh, wRaced,
                   xRaced>>
    /\ UNCHANGED <<qvars, cvars, gvars>>
    /\ UNCHANGED hvars

(* slot.mem[self.write_idx & INDEX_MASK] .insert(data): the write begins ... *)
WriteInsertBegin ==
    /\ pcW = "w_insert"
    /\ pcW' = "w_inserting"
    /\ wRaced' = ReaderAccessing(write_cell)
    /\ xRaced' = (xRaced \/ ReaderAccessing(write_cell))
    /\ UNCHANGED <<xmem, latest_free, read_idx, write_idx, last_written, xstrong,
                   xfreed, wAlive, xAlive, pcX, wData, wRet, xRet, xHasNew, writes,
                   xFresh>>
    /\ UNCHANGED <<qvars, cvars, gvars>>
    /\ UNCHANGED hvars

(* ... and ends: the cell holds Some(data), or anything after a race. *)
WriteInsertEnd ==
    /\ pcW = "w_inserting"
    /\ \E v \in (IF wRaced THEN XRacyOutcomes ELSE {Some(wData)}) :
           xmem' = [xmem EXCEPT ![write_cell] = v]
    /\ pcW' = "w_last"
    /\ wRaced' = FALSE
    /\ UNCHANGED <<latest_free, read_idx, write_idx, last_written, xstrong, xfreed,
                   wAlive, xAlive, pcX, wData, wRet, xRet, xHasNew, writes, xFresh,
                   xRaced>>
    /\ UNCHANGED <<qvars, cvars, gvars>>
    /\ UNCHANGED hvars

(* self.last_written = Some(self.write_idx & INDEX_MASK) *)
WriteSetLast ==
    /\ pcW = "w_last"
    /\ last_written' = Some(write_cell)
    /\ pcW' = "w_swap"
    /\ UNCHANGED <<xmem, latest_free, read_idx, write_idx, xstrong, xfreed, wAlive,
                   xAlive, pcX, wData, wRet, xRet, xHasNew, writes, xFresh, wRaced,
                   xRaced>>
    /\ UNCHANGED <<qvars, cvars, gvars>>
    /\ UNCHANGED hvars

(* the word the writer swaps in: self.write_idx | NEW_DATA_FLAG *)
(* (faulty variant: the flag is not set)                         *)
write_word_unflagged == write_idx
write_word_added == write_idx + NEW_DATA_FLAG
write_word == BitOr(write_idx, NEW_DATA_FLAG)

(* the writer's index after the swap returned the word `old`: the word    *)
(* itself, unmasked (faulty variants: the writer keeps the cell it        *)
(* published; the writer stores only the low two bits of the word)        *)
write_next_idx_kept(old) == write_idx
write_next_idx_masked(old) == BitAnd(old, INDEX_MASK)
write_next_idx(old) == old

(* (faulty variant: the write ends by setting an initial-write guard) *)
WriteSwapGuarded ==
    /\ pcW = "w_swap"
    /\ write_idx' = write_next_idx(latest_free)
    /\ latest_free' = write_word
    /\ wData' = 0
    /\ pcW' = "idle"
    /\ has_data' = TRUE
    /\ UNCHANGED <<xmem, read_idx, last_written, xstrong, xfreed, wAlive, xAlive, pcX,
                   wRet, xRet, xHasNew, writes, xFresh, wRaced, xRaced>>
    /\ UNCHANGED <<qvars, cvars, gLog, gSets>>
    /\ xQuietRet' = FALSE
    /\ xQuietLoad' = FALSE
    /\ UNCHANGED <<xSinceRet, xSinceLoad>>

(* self.write_idx = slot.latest_free.swap(self.write_idx | NEW_DATA_FLAG, AcqRel) *)
WriteSwap ==
    /\ pcW = "w_swap"
    /\ write_idx' = write_next_idx(latest_free)
    /\ latest_free' = write_word
    /\ wData' = 0
    /\ pcW' = "idle"
    /\ UNCHANGED <<xmem, read_idx, last_written, xstrong, xfreed, wAlive, xAlive, pcX,
                   wRet, xRet, xHasNew, writes, xFresh, wRaced, xRaced>>
    /\ UNCHANGED <<qvars, cvars, gvars>>
    /\ xQuietRet' = FALSE
    /\ xQuietLoad' = FALSE
    /\ UNCHANGED <<xSinceRet, xSinceLoad>>

-----------------------------------------------------------------------------
(* The triple buffer: Writer::read *)

WriterReadCall ==
    /\ wAlive
    /\ pcW = "idle"
    /\ pcW' = "wr_check"
    /\ UNCHANGED <<xmem, latest_free, read_idx, write_idx, last_written, xstrong,
                   xfreed, wAlive, xAlive, pcX, wData, wRet, xRet, xHasNew, writes,
                   xFresh, wRaced, xRaced>>
    /\ UNCHANGED <<qvars, cvars, gvars>>
    /\ UNCHANGED hvars

(* let last_written = self.last_written?; *)
WriterReadCheck ==
    /\ pcW = "wr_check"
    /\ IF last_written = None
       THEN /\ wRet' = None
            /\ pcW' = "idle"
       ELSE /\ pcW' = "wr_cloning"
            /\ UNCHANGED wRet
    /\ UNCHANGED <<xmem, latest_free, read_idx, write_idx, last_written, xstrong,
                   xfreed, wAlive, xAlive, pcX, wData, xRet, xHasNew, writes, xFresh,
                   wRaced, xRaced>>
    /\ UNCHANGED <<qvars, cvars, gvars>>
    /\ UNCHANGED hvars

(* (faulty variant: the clone is of the cell the writer holds for its next write) *)
WriterReadCloneHeld ==
    /\ pcW = "wr_cloning"
    /\ wRet' = xmem[write_cell]
    /\ pcW' = "idle"
    /\ UNCHANGED <<xmem, latest_free, read_idx, write_idx, last_written, xstrong,
                   xfreed, wAlive, xAlive, pcX, wData, xRet, xHasNew, writes, xFresh,
                   wRaced, xRaced>>
    /\ UNCHANGED <<qvars, cvars, gvars>>
    /\ UNCHANGED hvars

(* slot.mem[last_written] .clone(): two reads of a cell do not race *)
WriterReadClone ==
    /\ pcW = "wr_cloning"
    /\ wRet' = xmem[last_written[1]]
    /\ pcW' = "idle"
    /\ UNCHANGED <<xmem, latest_free, read_idx, write_idx, last_written, xstrong,
                   xfreed, wAlive, xAlive, pcX, wData, xRet, xHasNew, writes, xFresh,
                   wRaced, xRaced>>
    /\ UNCHANGED <<qvars, cvars, gvars>>
    /\ UNCHANGED hvars

-----------------------------------------------------------------------------
(* The triple buffer: Reader::read *)

ReadCall ==
    /\ xAlive
    /\ pcX = "idle"
    /\ pcX' = "x_load"
    /\ xFresh' = IF WriteInProgress THEN 0 ELSE writes
    /\ UNCHANGED <<xmem, latest_free, read_idx, write_idx, last_written, xstrong,
                   xfreed, wAlive, xAlive, pcW, wData, wRet, xRet, xHasNew, writes,
                   wRaced, xRaced>>
    /\ UNCHANGED <<qvars, cvars, gvars>>
    /\ xSinceRet' = xQuietRet
    /\ xSinceLoad' = FALSE
    /\ UNCHANGED <<xQuietRet, xQuietLoad>>

(* slot.latest_free.load(Acquire) & NEW_DATA_FLAG > 0 *)
(* (faulty variant: >= 0, so the reader always swaps)  *)
has_new_data_always(word) == BitAnd(word, NEW_DATA_FLAG) >= 0
has_new_data(word) == BitAnd(word, NEW_DATA_FLAG) > 0

ReadLoad ==
    /\ pcX = "x_load"
    /\ xHasNew' = has_new_data(latest_free)
    /\ pcX' = "x_swap"
    /\ UNCHANGED <<xmem, latest_free, read_idx, write_idx, last_written, xstrong,
                   xfreed, wAlive, xAlive, pcW, wData, wRet, xRet, writes, xFresh,
                   wRaced, xRaced>>
    /\ UNCHANGED <<qvars, cvars, gvars>>
    /\ xSinceLoad' = xQuietLoad
    /\ xQuietLoad' = TRUE
    /\ UNCHANGED <<xQuietRet, xSinceRet>>

(* (faulty variant: the reader swaps in the index the word already holds) *)
(* (faulty variant: the reader swaps in its index with the flag set) *)
read_word_latest == BitAnd(latest_free, INDEX_MASK)
read_word_flagged == BitOr(read_idx, NEW_DATA_FLAG)

(* the word the reader swaps in: self.read_idx *)
read_word == read_idx

(* (faulty variant: the swap is taken whether or not new data was seen) *)
ReadSwapAlways ==
    /\ pcX = "x_swap"
    /\ read_idx' = BitAnd(latest_free, INDEX_MASK)
    /\ latest_free' = read_word
    /\ xHasNew' = FALSE
    /\ pcX' = "x_clone"
    /\ UNCHANGED <<xmem, write_idx, last_written, xstrong, xfreed, wAlive, xAlive, pcW,
                   wData, wRet, xRet, writes, xFresh, wRaced, xRaced>>
    /\ UNCHANGED <<qvars, cvars, gvars>>
    /\ UNCHANGED hvars

(* if has_new_data { self.read_idx = slot.latest_free.swap(self.read_idx, AcqRel) & INDEX_MASK } *)
ReadSwap ==
    /\ pcX = "x_swap"
    /\ IF xHasNew
       THEN /\ read_idx' = BitAnd(latest_free, INDEX_MASK)
            /\ latest_free' = read_word
       ELSE UNCHANGED <<read_idx, latest_free>>
    /\ xHasNew' = FALSE
    /\ pcX' = "x_clone"
    /\ UNCHANGED <<xmem, write_idx, last_written, xstrong, xfreed, wAlive, xAlive, pcW,
                   wData, wRet, xRet, writes, xFresh, wRaced, xRaced>>
    /\ UNCHANGED <<qvars, cvars, gvars>>
    /\ UNCHANGED hvars

(* slot.mem[self.read_idx] .clone(): the clone begins ... *)
ReadCloneBegin ==
    /\ pcX = "x_clone"
    /\ pcX' = "x_cloning"
    /\ xRaced' = WriterAccessing(read_idx)
    /\ wRaced' = (wRaced \/ WriterAccessing(read_idx))
    /\ UNCHANGED <<xmem, latest_free, read_idx, write_idx, last_written, xstrong,
                   xfreed, wAlive, xAlive, pcW, wData, wRet, xRet, xHasNew, writes,
                   xFresh>>
    /\ UNCHANGED <<qvars, cvars, gvars>>
    /\ UNCHANGED hvars

(* (faulty variant: the clone is of the cell the shared word names) *)
ReadCloneEndShared ==
    /\ pcX = "x_cloning"
    /\ xRet' = xmem[BitAnd(latest_free, INDEX_MASK)]
    /\ pcX' = "idle"
    /\ xRaced' = FALSE
    /\ UNCHANGED <<xmem, latest_free, read_idx, write_idx, last_written, xstrong,
                   xfreed, wAlive, xAlive, pcW, wData, wRet, xHasNew, writes, xFresh,
                   wRaced>>
    /\ UNCHANGED <<qvars, cvars, gvars>>
    /\ xQuietRet' = TRUE
    /\ UNCHANGED <<xQuietLoad, xSinceRet, xSinceLoad>>

(* ... and ends: val is what the cell holds, or anything after a race. *)
ReadCloneEnd ==
    /\ pcX = "x_cloning"
    /\ \E v \in (IF xRaced THEN XRacyOutcomes ELSE {xmem[read_idx]}) :
           xRet' = v
    /\ pcX' = "idle"
    /\ xRaced' = FALSE
    /\ UNCHANGED <<xmem, latest_free, read_idx, write_idx, last_written, xstrong,
                   xfreed, wAlive, xAlive, pcW, wData, wRet, xHasNew, writes, xFresh,
                   wRaced>>
    /\ UNCHANGED <<qvars, cvars, gvars>>
    /\ xQuietRet' = TRUE
    /\ UNCHANGED <<xQuietLoad, xSinceRet, xSinceLoad>>

-----------------------------------------------------------------------------
(* The initial-write guard (inital_write_guard.rs) *)

(* InitialWriteGuard::new: has_data: false.into() *)
GuardNew ==
    /\ has_data = FALSE
    /\ gLog = <<>>
    /\ gSets = 0

(* has_data(): self.has_data.load(Ordering::Acquire) *)
GuardHasData ==
    /\ Len(gLog) < MaxGuardCalls
    /\ gLog' = Append(gLog, has_data)
    /\ UNCHANGED <<has_data, gSets>>
    /\ UNCHANGED <<qvars, xvars, cvars, hvars>>

(* the value set_has_data stores (faulty variant: it flips the flag) *)
guard_store_flipped == ~has_data
guard_store_value == TRUE

(* set_has_data(): self.has_data.store(true, Ordering::Release) *)
GuardSetHasData ==
    /\ gSets < MaxGuardSets
    /\ has_data' = guard_store_value
    /\ gSets' = gSets + 1
    /\ UNCHANGED gLog
    /\ UNCHANGED <<qvars, xvars, cvars, hvars>>

-----------------------------------------------------------------------------
(* The queue: specification *)

QNext ==
    \/ spsc
    \/ TrySendCall \/ SendLoad \/ SendWriteBegin \/ SendWriteEnd \/ SendStore \/ SendInc
    \/ TryRecvCall \/ RecvLoad \/ RecvTakeBegin \/ RecvTakeEnd \/ RecvStore \/ RecvInc
    \/ PeekCall \/ PeekLoad \/ PeekReadBegin \/ PeekReadEnd
    \/ DropSender \/ DropReceiver

InitQ == QInit /\ XInit /\ GuardNew

SpecQ == InitQ /\ [][QNext]_vars

-----------------------------------------------------------------------------
(* Construction of the queue, for every capacity a usize holds *)

CNext ==
    \/ spsc
    \/ SenderCapacity \/ ReceiverCapacity

InitC ==
    /\ capacity \in 0..(Usize - 1)
    /\ QStart
    /\ XInit
    /\ GuardNew

SpecC == InitC /\ [][CNext]_vars

-----------------------------------------------------------------------------
(* The triple buffer: specification *)

XNext ==
    \/ WriteCall \/ WriteInsertBegin \/ WriteInsertEnd \/ WriteSetLast \/ WriteSwap
    \/ WriterReadCall \/ WriterReadCheck \/ WriterReadClone
    \/ ReadCall \/ ReadLoad \/ ReadSwap \/ ReadCloneBegin \/ ReadCloneEnd
    \/ DropWriter \/ DropReader

(* The queue is left unbuilt. *)
InitX ==
    /\ QInit
    /\ capacity = 0
    /\ XInit
    /\ GuardNew

SpecX == InitX /\ [][XNext]_vars

-----------------------------------------------------------------------------
(* Both primitives, with a thread that has begun an operation scheduled again *)

(* the steps of an operation in progress, by thread: none of them is a call *)
SenderStep ==
    SendLoad \/ SendWriteBegin \/ SendWriteEnd \/ SendStore \/ SendInc

ReceiverStep ==
    \/ RecvLoad \/ RecvTakeBegin \/ RecvTakeEnd \/ RecvStore \/ RecvInc
    \/ PeekLoad \/ PeekReadBegin \/ PeekReadEnd

WriterStep ==
    \/ WriteInsertBegin \/ WriteInsertEnd \/ WriteSetLast \/ WriteSwap
    \/ WriterReadCheck \/ WriterReadClone

ReaderStep ==
    ReadLoad \/ ReadSwap \/ ReadCloneBegin \/ ReadCloneEnd

(* the triple buffer after triple_buffer() and the drop of both handles *)
XDropped ==
    /\ xmem = [i \in {} |-> None]
    /\ latest_free = 0
    /\ read_idx = 1
    /\ write_idx = 2
    /\ last_written = None
    /\ xstrong = 0
    /\ xfreed = 1
    /\ wAlive = FALSE
    /\ xAlive = FALSE
    /\ pcW = "idle"
    /\ pcX = "idle"
    /\ wData = 0
    /\ wRet = None
    /\ xRet = None
    /\ xHasNew = FALSE
    /\ writes = 0
    /\ xFresh = 0
    /\ wRaced = FALSE
    /\ xRaced = FALSE
    /\ xQuietRet = FALSE
    /\ xQuietLoad = FALSE
    /\ xSinceRet = FALSE
    /\ xSinceLoad = FALSE

(* the queue after spsc(2) and the drop of both handles *)
QDropped ==
    /\ capacity = 2
    /\ qstate = "live"
    /\ mem = [i \in {} |-> Slot_new]
    /\ mask = Spsc_new_mask(2)
    /\ strong = 0
    /\ freed = 1
    /\ write = 0
    /\ read = 0
    /\ sAlive = FALSE
    /\ rAlive = FALSE
    /\ pcS = "idle"
    /\ pcR = "idle"
    /\ sData = 0
    /\ sRet = NoResult
    /\ rVal = None
    /\ rRet = None
    /\ calls = 0
    /\ accepted = <<>>
    /\ received = <<>>
    /\ peeked = None
    /\ sRaced = FALSE
    /\ rRaced = FALSE
    /\ sCap = None
    /\ rCap = None

FNext ==
    \/ QNext
    \/ XNext

(* A program uses one primitive at a time: the queue, after a triple buffer *)
(* it has dropped, or the triple buffer, after a queue it has dropped.      *)
InitF ==
    /\ \/ QInit /\ XDropped
       \/ QDropped /\ XInit
    /\ GuardNew

-----------------------------------------------------------------------------
(* The queue near the end of its cursors' range *)

(* the queue after spsc(capacity) and usize::MAX - 1 items sent and received: *)
(* every slot is free and both cursors are two short of wrapping; the         *)
(* histories start here.                                                      *)
QWorn ==
    /\ capacity \in {2, 4}
    /\ qstate = "live"
    /\ mem = Spsc_new_mem(capacity)
    /\ mask = Spsc_new_mask(capacity)
    /\ strong = 2
    /\ freed = 0
    /\ write = Usize - 2
    /\ read = Usize - 2
    /\ sAlive = TRUE
    /\ rAlive = TRUE
    /\ pcS = "idle"
    /\ pcR = "idle"
    /\ sData = 0
    /\ sRet = NoResult
    /\ rVal = None
    /\ rRet = None
    /\ calls = 0
    /\ accepted = <<>>
    /\ received = <<>>
    /\ peeked = None
    /\ sRaced = FALSE
    /\ rRaced = FALSE
    /\ sCap = None
    /\ rCap = None

WNext ==
    \/ TrySendCall \/ SendLoad \/ SendWriteBegin \/ SendWriteEnd \/ SendStore \/ SendInc
    \/ TryRecvCall \/ RecvLoad \/ RecvTakeBegin \/ RecvTakeEnd \/ RecvStore \/ RecvInc
    \/ PeekCall \/ PeekLoad \/ PeekReadBegin \/ PeekReadEnd
    \/ DropSender \/ DropReceiver

InitW ==
    /\ QWorn
    /\ XDropped
    /\ GuardNew

SpecW == InitW /\ [][WNext]_vars

-----------------------------------------------------------------------------
(* The guard alone: it is used by neither primitive *)

GNext ==
    \/ GuardHasData
    \/ GuardSetHasData

InitG ==
    /\ QDropped
    /\ XDropped
    /\ GuardNew

SpecG == InitG /\ [][GNext]_vars

SpecF ==
    /\ InitF
    /\ [][FNext]_vars
    /\ WF_vars(SenderStep)
    /\ WF_vars(ReceiverStep)
    /\ WF_vars(WriterStep)
    /\ WF_vars(ReaderStep)

-----------------------------------------------------------------------------
(* Properties of the queue *)

IsPrefix(s, t) ==
    /\ Len(s) <= Len(t)
    /\ \A i \in 1..Len(s) : s[i] = t[i]

Range(s) == {s[i] : i \in 1..Len(s)}

(* The number of items published and not yet released by the receiver. *)
InFlight == Len(accepted) - Len(received)

(* C1: FIFO.  Under every interleaving of the sender's try_send and the       *)
(* receiver's try_recv, the items try_recv has taken so far are a prefix of   *)
(* the items try_send has published (same order, none duplicated, skipped or  *)
(* invented), and the item a try_recv is about to return is the last of them. *)
C1_Fifo ==
    /\ IsPrefix(received, accepted)
    /\ pcR = "r_inc" =>
           /\ Len(received) > 0
           /\ rVal = Some(received[Len(received)])

(* Three items received from a queue of two slots (the cursors wrapped), a     *)
(* fourth published, the receiver about to return while the sender is writing. *)
C1_Witness ==
    /\ capacity = 2
    /\ Len(received) = 3
    /\ Len(accepted) = 4
    /\ pcR = "r_inc"
    /\ pcS = "s_writing"

(* C2: round trip.  When try_recv returns None while the sender is not inside *)
(* a try_send (it has stopped), the list of received items equals the list of *)
(* accepted items exactly.                                                    *)
C2_RoundTrip ==
    [][(pcR = "r_load" /\ pcR' = "idle" /\ rRet' = None /\ pcS = "idle")
          => received' = accepted']_vars

(* Four values pushed into a queue of four, the sender dropped, four values *)
(* popped in the order pushed, and the next pop returned None.              *)
C2_Witness ==
    /\ capacity = 4
    /\ ~sAlive
    /\ accepted = <<1, 2, 3, 4>>
    /\ received = <<1, 2, 3, 4>>
    /\ read = 4
    /\ pcR = "idle"
    /\ rRet = None

(* C4: data-race freedom of the queue.  In no reachable state are the       *)
(* sender's payload write and the receiver's payload read or removal         *)
(* (try_recv or peek) of the same slot in progress together, and every item  *)
(* the receiver holds or has returned is a whole value that was sent.        *)
C4_QueueNoRace ==
    /\ \A i \in DOMAIN mem : ~(SenderAccessing(i) /\ ReceiverAccessing(i))
    /\ ~sRaced
    /\ ~rRaced
    /\ rVal = None \/ rVal[1] \in Range(accepted)
    /\ rRet = None \/ rRet[1] \in Range(accepted)

(* Both payload accesses in progress at once, on different slots: the sender  *)
(* writes the slot after the one the receiver is emptying.                    *)
C4_Witness ==
    /\ pcS = "s_writing"
    /\ pcR = "r_taking"
    /\ wpos # rpos
    /\ read >= 1

(* The same with the receiver reading through peek's reference. *)
C4_WitnessPeek ==
    /\ pcS = "s_writing"
    /\ pcR = "p_reading"
    /\ wpos # rpos

(* C6: full is reported without loss or side effect.  The step of try_send  *)
(* that finds the occupancy flag of the slot at its write cursor set returns *)
(* the rejection carrying exactly its argument, and leaves the write cursor, *)
(* every slot payload and every occupancy flag unchanged.                    *)
C6_FullNoSideEffect ==
    [][(pcS = "s_load" /\ pcS' # pcS /\ mem[wpos].occupied)
          => /\ pcS' = "idle"
             /\ sRet' = NoSpaceLeftError(sData)
             /\ write' = write
             /\ mem' = mem]_vars

(* Capacity 4: sends 1..4 accepted, send 5 rejected and handed back. *)
C6_Witness ==
    /\ capacity = 4
    /\ accepted = <<1, 2, 3, 4>>
    /\ pcS = "idle"
    /\ sRet = NoSpaceLeftError(5)
    /\ write = 4
    /\ \A i \in DOMAIN mem : mem[i] = [value |-> Some(i + 1), occupied |-> TRUE]

(* C7: full boundary.  At its flag load try_send is rejected (the flag of  *)
(* the slot at the write cursor is set) if and only if exactly `capacity`  *)
(* accepted items have not yet had their slot released by the receiver,    *)
(* whether or not the receiver still exists.                               *)
C7_FullBoundary ==
    pcS = "s_load" => (mem[wpos].occupied <=> InFlight = Spsc_capacity)

(* The receiver was dropped without receiving; sends 1..4 were accepted and *)
(* send 5 was rejected.                                                     *)
C7_Witness ==
    /\ capacity = 4
    /\ ~rAlive
    /\ received = <<>>
    /\ Len(accepted) = 4
    /\ sRet = NoSpaceLeftError(5)

(* After the rejection one try_recv completed and the next try_send (6) is *)
(* past its flag load, accepted.                                           *)
C7_WitnessAfterRecv ==
    /\ capacity = 4
    /\ received = <<1>>
    /\ Len(accepted) = 4
    /\ sRet = NoSpaceLeftError(5)
    /\ sData = 6
    /\ pcS = "s_write"

(* C8: empty.  At its flag load try_recv finds the flag of the slot at its *)
(* read cursor clear exactly when no published item remains unreceived; it *)
(* returns None exactly when that flag is clear; and a None result changes *)
(* neither the read cursor nor any slot payload or flag.                   *)
C8_Empty ==
    /\ [](pcR = "r_load" => (~mem[rpos].occupied <=> InFlight = 0))
    /\ [][(pcR = "r_load" /\ pcR' # pcR)
             => /\ (pcR' = "idle" /\ rRet' = None) <=> ~mem[rpos].occupied
                /\ ~mem[rpos].occupied => (read' = read /\ mem' = mem)]_vars

(* try_recv returned None after two receives, while the sender holds a third *)
(* item it has written and not yet published.                                *)
C8_Witness ==
    /\ pcR = "idle"
    /\ rRet = None
    /\ read = 2
    /\ InFlight = 0
    /\ pcS = "s_store"
    /\ peeked = None

(* C9: capacity bound.  The number of accepted items not yet received is      *)
(* between 0 and the capacity, and an accepted item is never overwritten      *)
(* before it is received: each one is still in the slot of its cursor         *)
(* position, but for the first once try_recv has moved it out.                *)
C9_CapacityBound ==
    qstate = "live" /\ strong > 0 =>
        /\ InFlight >= 0
        /\ InFlight <= Spsc_capacity
        /\ \A k \in (Len(received) + 1)..Len(accepted) :
               \/ mem[BitAnd(k - 1, mask)].value = Some(accepted[k])
               \/ k = Len(received) + 1 /\ pcR = "r_store"

(* A queue of two slots, full for the second time round, the sender about to *)
(* test the flag.                                                            *)
C9_Witness ==
    /\ capacity = 2
    /\ Len(received) = 2
    /\ InFlight = 2
    /\ pcS = "s_load"

(* C10: peek is a pure observation.  No step of peek changes an occupancy    *)
(* flag, a slot payload or the read cursor; at its flag load peek returns    *)
(* None exactly when the flag try_recv tests is clear; and once a peek has   *)
(* returned an item, every further peek and the next try_recv return that    *)
(* same item.                                                                *)
C10_PeekPure ==
    /\ [][(pcR' # pcR /\ (pcR' = "p_load" \/ pcR \in {"p_load", "p_read", "p_reading"}))
             => (mem' = mem /\ read' = read)]_vars
    /\ [][(pcR = "p_load" /\ pcR' # pcR)
             => ((pcR' = "idle" /\ rRet' = None) <=> ~mem[rpos].occupied)]_vars
    /\ [][(pcR = "p_reading" /\ pcR' = "idle")
             => /\ rRet' # None
                /\ peeked # None => rRet' = peeked]_vars
    /\ [][(pcR \in {"r_load", "r_inc"} /\ pcR' = "idle" /\ peeked # None)
             => rRet' = peeked]_vars

(* try_recv is about to return the item the peeks before it returned, while *)
(* the sender is writing the next slot.                                     *)
C10_Witness ==
    /\ pcR = "r_inc"
    /\ peeked # None
    /\ rVal = peeked
    /\ rRet = peeked
    /\ read >= 1
    /\ pcS = "s_writing"

(* C18: a flag changes only in the release store of a try_send that found  *)
(* its slot free, which sets the clear flag of the slot at the write cursor *)
(* with the payload already in it, or in the release store of a try_recv   *)
(* that found its slot occupied, which clears the set flag of the slot at   *)
(* the read cursor with the payload already taken out; each try_send that   *)
(* returns Ok and each try_recv that returns a value has made that store    *)
(* once, and a rejected send, an empty receive and a peek never make one.   *)
C18_FlagDiscipline ==
    [][DOMAIN mem' = DOMAIN mem =>
         LET Flips == {i \in DOMAIN mem : mem'[i].occupied # mem[i].occupied}
             SenderStores == pcS = "s_store" /\ pcS' = "s_inc"
             ReceiverStores == pcR = "r_store" /\ pcR' = "r_inc"
         IN  /\ SenderStores
                  => /\ Flips = {wpos}
                     /\ ~mem[wpos].occupied /\ mem'[wpos].occupied
                     /\ mem[wpos].value = Some(sData)
                     /\ mem'[wpos].value = mem[wpos].value
             /\ ReceiverStores
                  => /\ Flips = {rpos}
                     /\ mem[rpos].occupied /\ ~mem'[rpos].occupied
                     /\ mem[rpos].value = None
                     /\ mem'[rpos].value = None
             /\ ~(SenderStores \/ ReceiverStores) => Flips = {}
             /\ (pcS' = "s_inc" /\ pcS # "s_inc") => pcS = "s_store"
             /\ (pcS = "s_inc" /\ pcS' # "s_inc") => (pcS' = "idle" /\ sRet' = Ok)
             /\ (pcS # "idle" /\ pcS' = "idle") => (sRet' = Ok <=> pcS = "s_inc")
             /\ (pcR' = "r_inc" /\ pcR # "r_inc") => pcR = "r_store"
             /\ (pcR = "r_inc" /\ pcR' # "r_inc") => (pcR' = "idle" /\ rRet' # None)
             /\ (pcR \in {"r_load", "r_take", "r_taking", "r_store", "r_inc"}
                   /\ pcR' = "idle")
                  => (rRet' # None <=> pcR = "r_inc")]_vars

(* both sides have just made their one transition, on different slots *)
C18_Witness ==
    /\ pcS = "s_inc" /\ mem[wpos].occupied
    /\ pcR = "r_inc" /\ ~mem[rpos].occupied
    /\ wpos # rpos

(* a try_recv, or a try_send, is in progress on slot i *)
RecvInProgressOn(i) ==
    pcR \in {"r_load", "r_take", "r_taking", "r_store", "r_inc"} /\ i = BitAnd(read, mask)

SendInProgressOn(i) ==
    pcS \in {"s_load", "s_write", "s_writing", "s_store", "s_inc"} /\ i = BitAnd(write, mask)

(* C25: a slot whose flag is set, with no try_recv in progress on it, holds *)
(* a payload that was sent; a slot whose flag is clear, with no try_send in *)
(* progress on it, holds None; a try_recv that has seen the flag set finds  *)
(* a payload in the slot and returns it, never None.                        *)
C25_SlotPayload ==
    /\ [](\A i \in DOMAIN mem :
            /\ (mem[i].occupied /\ ~RecvInProgressOn(i))
                 => (Len(mem[i].value) = 1 /\ mem[i].value[1] \in 1..calls)
            /\ (~mem[i].occupied /\ ~SendInProgressOn(i))
                 => mem[i].value = None)
    /\ [](pcR \in {"r_take", "r_taking"}
            => /\ mem[BitAnd(read, mask)].occupied
               /\ Len(mem[BitAnd(read, mask)].value) = 1
               /\ mem[BitAnd(read, mask)].value[1] \in 1..calls)
    /\ [][(pcR = "r_inc" /\ pcR' = "idle")
            => (Len(rRet') = 1 /\ rRet'[1] \in 1..calls)]_vars

(* a try_recv has seen the flag of slot 1 set and is about to take its *)
(* payload, while slot 0 is free again and a try_send writes into it   *)
C25_Witness ==
    /\ capacity = 2
    /\ pcR = "r_take" /\ BitAnd(read, mask) = 1 /\ mem[1].value = Some(2)
    /\ pcS = "s_writing" /\ BitAnd(write, mask) = 0 /\ mem[0].value = None

(* the two sides are between operations and the slots exist *)
QueueAtRest ==
    /\ qstate = "live" /\ freed = 0
    /\ pcS = "idle" /\ pcR = "idle"

(* C26: when neither side is in an operation, read <= write <= read + N,   *)
(* the occupied slots are exactly those at p & mask for read <= p < write, *)
(* and each p & mask is p mod N, a slot index in 0..N-1.                   *)
C26_CursorRelation ==
    QueueAtRest =>
        /\ read <= write
        /\ write <= read + capacity
        /\ {i \in DOMAIN mem : mem[i].occupied}
             = {BitAnd(p, mask) : p \in read..(write - 1)}
        /\ \A p \in read..write :
             /\ BitAnd(p, mask) = p % capacity
             /\ BitAnd(p, mask) \in 0..(capacity - 1)
             /\ BitAnd(p, mask) \in DOMAIN mem

(* with overflow checks: the send at usize::MAX has set the flag of its *)
(* slot and panicked in the addition, the write cursor left behind      *)
C26_Panicked ==
    /\ pcS = "panicked" /\ pcR = "idle"
    /\ write = Usize - 1 /\ read = Usize - 1
    /\ mem[BitAnd(write, mask)].occupied

(* two items were sent and one received across the end of the cursors' *)
(* range: the write cursor has wrapped, the read cursor has not        *)
C26_Wrapped ==
    /\ QueueAtRest
    /\ write = 0 /\ read = Usize - 1
    /\ Len(accepted) = 2 /\ Len(received) = 1

-----------------------------------------------------------------------------
(* Properties of the triple buffer *)

(* C3: latest value.  xFresh = k > 0 says that the reader's read was called   *)
(* when k writes had been called and none was in progress, so write(k) had    *)
(* completed; writes = xFresh says that no write was called since.  Such a    *)
(* read returns the k-th value, however many earlier writes were never read.  *)
C3_LatestValue ==
    (pcX = "idle" /\ xFresh > 0 /\ writes = xFresh) => xRet = Some(xFresh)

(* write 1, 2, 3 and then the first read that swaps: the reader's first cell *)
(* (1) went back unwritten and the read returned 3.                          *)
C3_Witness ==
    /\ pcX = "idle"
    /\ xFresh = 3
    /\ writes = 3
    /\ xRet = Some(3)
    /\ latest_free = 1
    /\ xmem[1] = None

(* C5: data-race freedom of the triple buffer.  The writer never writes a    *)
(* cell while the reader's read is cloning it, never writes the cell of its  *)
(* own self-read (last_written), and every value a reader read returned is a *)
(* whole value passed to some write.                                         *)
C5_ExchangeNoRace ==
    /\ \A i \in Cells : ~(WriterAccessing(i) /\ ReaderAccessing(i))
    /\ ~wRaced
    /\ ~xRaced
    /\ pcW \in {"w_insert", "w_inserting"} => last_written # Some(write_cell)
    /\ xRet = None \/ xRet[1] \in 1..writes

(* The writer writes its third value while the reader clones an earlier one. *)
C5_Witness ==
    /\ pcW = "w_inserting"
    /\ pcX = "x_cloning"
    /\ writes = 3
    /\ xmem[read_idx] # None
    /\ last_written # None

(* No write has completed: none was called, or the first has not swapped yet. *)
NoWritePerformed == writes = 0 \/ (writes = 1 /\ WriteInProgress)

(* C12: never-written state.  Every step of a reader read taken before any   *)
(* write has been performed leaves the shared index/flag word and the three   *)
(* cells unchanged, and such a read returns None; while no write was called   *)
(* the word and the cells are as constructed.                                 *)
C12_NeverWritten ==
    /\ [](writes = 0 =>
            /\ xRet = None
            /\ latest_free = 0
            /\ \A i \in DOMAIN xmem : xmem[i] = None)
    /\ [][(pcX' # pcX /\ NoWritePerformed)
             => /\ latest_free' = latest_free
                /\ xmem' = xmem
                /\ read_idx' = read_idx
                /\ pcX = "x_cloning" => xRet' = None]_vars

(* The reader is cloning its cell, having seen no new data, while the first  *)
(* write has stored its value and not yet published it.                      *)
C12_Witness ==
    /\ pcX = "x_cloning"
    /\ read_idx = 1
    /\ writes = 1
    /\ pcW = "w_swap"
    /\ xmem[2] = Some(1)
    /\ latest_free = 0

(* C13 as stated: once a reader read has returned a value no later reader    *)
(* read returns empty; and a reader read called when the writer has          *)
(* published nothing since the previous reader read returned gives the same  *)
(* value as that read and changes neither the shared word nor read_idx.      *)
(* It fails: a write that publishes while a read is between its load of the  *)
(* word and its return, on either of the two reads, is not between them.     *)
C13_StableSinceReturn ==
    [][/\ (pcX = "x_cloning" /\ pcX' = "idle")
            => /\ xRet # None => xRet' # None
               /\ xSinceRet => xRet' = xRet
       /\ (pcX' # pcX /\ pcX # "idle" /\ xSinceRet)
            => /\ latest_free' = latest_free
               /\ read_idx' = read_idx]_vars

(* C13, amended: once a reader read has returned a value no later reader     *)
(* read returns empty; and if the writer publishes nothing between the       *)
(* loads of the shared word by two consecutive reader reads, the second      *)
(* returns the same value as the first and changes neither the shared word   *)
(* nor read_idx.                                                             *)
C13_RepeatedRead ==
    [][/\ (pcX = "x_cloning" /\ pcX' = "idle")
            => /\ xRet # None => xRet' # None
               /\ xSinceLoad => xRet' = xRet
       /\ (pcX' # pcX /\ pcX # "idle" /\ xSinceLoad)
            => /\ latest_free' = latest_free
               /\ read_idx' = read_idx]_vars

(* a second read has returned the value of the first, 1, while write 2 had   *)
(* been published during it                                                  *)
C13_Witness ==
    /\ pcX = "idle" /\ xSinceLoad /\ xRet = Some(1)
    /\ writes = 2 /\ pcW = "idle" /\ has_new_data(latest_free)

(* C16: the writer's read returns None if the writer has never written and  *)
(* otherwise the value of its latest write, whatever the reader is doing;   *)
(* none of its steps changes latest_free, a cell or write_idx.              *)
C16_WriterSelfRead ==
    [][/\ (pcW \in {"wr_check", "wr_cloning"} /\ pcW' = "idle")
            => wRet' = (IF writes = 0 THEN None ELSE Some(writes))
       /\ (pcW' # pcW /\ (pcW \in {"wr_check", "wr_cloning"} \/ pcW' = "wr_check"))
            => /\ latest_free' = latest_free
               /\ xmem' = xmem
               /\ write_idx' = write_idx
               /\ last_written' = last_written]_vars

(* the writer's read has returned the second value while the reader is in  *)
(* the middle of cloning the same cell                                     *)
C16_Witness ==
    /\ pcW = "idle" /\ writes = 2 /\ wRet = Some(2)
    /\ pcX = "x_cloning" /\ last_written = Some(read_idx)

(* C17: in every state, between the steps of a write or a read too, the    *)
(* reader's index, the low two bits of the writer's index and the low two  *)
(* bits of the shared word are three different cells, together 0, 1 and 2. *)
C17_Rotation ==
    /\ {read_idx, BitAnd(write_idx, INDEX_MASK), BitAnd(latest_free, INDEX_MASK)} = Cells
    /\ read_idx # BitAnd(write_idx, INDEX_MASK)
    /\ read_idx # BitAnd(latest_free, INDEX_MASK)
    /\ BitAnd(write_idx, INDEX_MASK) # BitAnd(latest_free, INDEX_MASK)

(* every index has moved from its first cell, a write is inserting and a *)
(* read is between its swap and its clone                                *)
C17_Witness ==
    /\ read_idx = 2 /\ BitAnd(write_idx, INDEX_MASK) = 0 /\ BitAnd(latest_free, INDEX_MASK) = 1
    /\ pcW = "w_inserting" /\ pcX = "x_clone"

(* C19 as stated: after every write the writer's stored write_idx is the   *)
(* low two bits of the word the swap returned, so it is 0, 1 or 2 and does  *)
(* not carry NEW_DATA_FLAG. It fails: the whole word is stored.             *)
C19_StoredIndexMasked ==
    [][(pcW = "w_swap" /\ pcW' = "idle")
         => /\ write_idx' = BitAnd(latest_free, INDEX_MASK)
            /\ write_idx' \in Cells
            /\ BitAnd(write_idx', NEW_DATA_FLAG) = 0]_vars

(* C19, amended: after every write the writer's stored write_idx is the     *)
(* word the swap returned, so its low two bits, the cell the writer uses,   *)
(* are those of that word and are 0, 1 or 2; it carries NEW_DATA_FLAG       *)
(* exactly when that word did, and is one of 0, 1, 2, 4, 5, 6.              *)
C19_StoredIndex ==
    /\ [](write_idx \in {0, 1, 2, 4, 5, 6} /\ write_cell \in Cells)
    /\ [][(pcW = "w_swap" /\ pcW' = "idle")
            => /\ write_idx' = latest_free
               /\ BitAnd(write_idx', INDEX_MASK) = BitAnd(latest_free, INDEX_MASK)
               /\ BitAnd(write_idx', NEW_DATA_FLAG) = BitAnd(latest_free, NEW_DATA_FLAG)
               /\ BitAnd(write_idx', INDEX_MASK) \in Cells]_vars

(* two writes with no read between them: the second swap returned the word *)
(* of the first, cell 2 with the flag                                       *)
C19_Witness ==
    /\ pcW = "idle" /\ writes = 2
    /\ write_idx = BitOr(2, NEW_DATA_FLAG)
    /\ BitAnd(write_idx, INDEX_MASK) = 2

(* C20: the shared word is always one of 0, 1, 2, 4, 5, 6: its low two bits *)
(* are never both set and it has no bit above NEW_DATA_FLAG.                *)
C20_WordRange ==
    /\ latest_free \in {0, 1, 2, 4, 5, 6}
    /\ BitAnd(latest_free, INDEX_MASK) # INDEX_MASK
    /\ latest_free < 2 * NEW_DATA_FLAG

(* the writer has published from a write_idx that carried the flag: the or *)
(* leaves the flag as it is, with no carry                                 *)
C20_Witness ==
    /\ writes = 3 /\ pcW = "idle" /\ xRet = None
    /\ latest_free = BitOr(2, NEW_DATA_FLAG)
    /\ write_idx = BitOr(0, NEW_DATA_FLAG)

(* C21 as stated: a write ends by setting the guard, so the guard is set   *)
(* after every completed write; a reader read that finds the guard unset   *)
(* returns None and does not swap the shared word. It fails: the triple    *)
(* buffer has no guard, write sets none and read checks none.              *)
C21_GuardUsed ==
    /\ []((writes > 0 /\ ~WriteInProgress) => has_data)
    /\ [][/\ (pcW = "w_swap" /\ pcW' = "idle") => has_data'
          /\ (pcX = "x_cloning" /\ pcX' = "idle" /\ ~has_data) => xRet' = None
          /\ (pcX = "x_swap" /\ pcX' # pcX /\ ~has_data)
               => latest_free' = latest_free]_vars

(* C21, amended: no step of a write or of a reader read sets or reads an   *)
(* initial-write guard; the read swaps exactly when its load saw the       *)
(* new-data flag and returns what its cell holds, whether or not a guard   *)
(* is set; it returns None, without swapping, whenever no write has yet    *)
(* published, because the cells start as None and the flag starts clear.   *)
C21_NoGuard ==
    [][/\ (pcW' # pcW \/ pcX' # pcX) => UNCHANGED gvars
       /\ (pcX = "x_swap" /\ pcX' # pcX)
            => (latest_free' # latest_free <=> xHasNew)
       /\ (pcX = "x_cloning" /\ pcX' = "idle") => xRet' = xmem[read_idx]
       /\ (pcX # "idle" /\ pcX' # pcX /\ NoWritePerformed)
            => /\ latest_free' = latest_free
               /\ pcX' = "idle" => xRet' = None]_vars

(* a write has completed and a reader read has returned its value, with *)
(* the guard unset                                                      *)
C21_Witness ==
    /\ pcW = "idle" /\ writes = 1
    /\ pcX = "idle" /\ xRet = Some(1)
    /\ ~has_data /\ gSets = 0

(* C23: the values returned by successive reader reads never go backwards *)
(* in write order: a read that follows one that returned the k-th written *)
(* value returns the j-th written value for some j >= k.                  *)
C23_Monotonic ==
    [][(pcX = "x_cloning" /\ pcX' = "idle" /\ xRet # None)
         => /\ xRet' # None
            /\ xRet'[1] \in 1..writes
            /\ xRet'[1] >= xRet[1]]_vars

(* the previous read returned the first value; this one, about to return, *)
(* holds the third, the second having been overwritten unread, while the  *)
(* fourth is being written                                                *)
C23_Witness ==
    /\ pcX = "x_cloning" /\ xRet = Some(1) /\ xmem[read_idx] = Some(3)
    /\ writes = 4 /\ pcW = "w_inserting"

(* the writes that have published: all that were called but one in progress *)
Published == IF WriteInProgress THEN writes - 1 ELSE writes

(* C24: the flag is set only by the writer's swap and cleared only by the  *)
(* reader's swap; so from the load at which the reader saw the flag until  *)
(* its swap the word keeps the flag and names a cell, held by neither      *)
(* side, that holds the latest published value, and the swap takes that    *)
(* cell and clears the flag, even if the writer published in between.      *)
C24_FlagOwnership ==
    /\ []((pcX = "x_swap" /\ xHasNew)
            => /\ BitAnd(latest_free, NEW_DATA_FLAG) = NEW_DATA_FLAG
               /\ BitAnd(latest_free, INDEX_MASK) \in Cells \ {read_idx, write_cell}
               /\ Published > 0
               /\ xmem[BitAnd(latest_free, INDEX_MASK)] = Some(Published))
    /\ [][/\ (BitAnd(latest_free, NEW_DATA_FLAG) = 0
                 /\ BitAnd(latest_free', NEW_DATA_FLAG) # 0)
               => (pcW = "w_swap" /\ pcW' = "idle")
          /\ (BitAnd(latest_free, NEW_DATA_FLAG) # 0
                 /\ BitAnd(latest_free', NEW_DATA_FLAG) = 0)
               => (pcX = "x_swap" /\ pcX' = "x_clone")
          /\ (pcX = "x_swap" /\ pcX' = "x_clone" /\ xHasNew)
               => /\ read_idx' = BitAnd(latest_free, INDEX_MASK)
                  /\ BitAnd(latest_free', NEW_DATA_FLAG) = 0
                  /\ xmem[read_idx'] = Some(Published)]_vars

(* the reader saw the flag at its load, the writer has published again     *)
(* since, and the reader is about to swap                                  *)
C24_Witness ==
    /\ pcX = "x_swap" /\ xHasNew /\ ~xQuietLoad
    /\ writes = 2 /\ pcW = "idle"
    /\ xmem[BitAnd(latest_free, INDEX_MASK)] = Some(2)

-----------------------------------------------------------------------------
(* Properties of both primitives *)

(* the number of its own steps an operation at this position has left at most *)
StepsLeft ==
    [idle |-> 0,
     s_load |-> 5, s_write |-> 4, s_writing |-> 3, s_store |-> 2, s_inc |-> 1,
     r_load |-> 5, r_take |-> 4, r_taking |-> 3, r_store |-> 2, r_inc |-> 1,
     p_load |-> 3, p_read |-> 2, p_reading |-> 1,
     w_insert |-> 4, w_inserting |-> 3, w_last |-> 2, w_swap |-> 1,
     wr_check |-> 2, wr_cloning |-> 1,
     x_load |-> 4, x_swap |-> 3, x_clone |-> 2, x_cloning |-> 1]

(* C14: whatever the other thread is doing or has stopped doing, an operation *)
(* in progress (try_send, try_recv, peek, write, the reader's read, the       *)
(* writer's read) can take its next step; each of its steps brings it nearer  *)
(* to its return, which is at most five steps after the call; and a thread    *)
(* that is scheduled again returns from it.                                   *)
C14_WaitFree ==
    /\ [](/\ pcS # "idle" => ENABLED <<SenderStep>>_vars
          /\ pcR # "idle" => ENABLED <<ReceiverStep>>_vars
          /\ pcW # "idle" => ENABLED <<WriterStep>>_vars
          /\ pcX # "idle" => ENABLED <<ReaderStep>>_vars)
    /\ [][/\ <<SenderStep>>_vars => StepsLeft[pcS'] < StepsLeft[pcS]
          /\ <<ReceiverStep>>_vars => StepsLeft[pcR'] < StepsLeft[pcR]
          /\ <<WriterStep>>_vars => StepsLeft[pcW'] < StepsLeft[pcW]
          /\ <<ReaderStep>>_vars => StepsLeft[pcX'] < StepsLeft[pcX]
          /\ pcS' # pcS => (pcS = "idle" \/ SenderStep)
          /\ pcR' # pcR => (pcR = "idle" \/ ReceiverStep)
          /\ pcW' # pcW => (pcW = "idle" \/ WriterStep)
          /\ pcX' # pcX => (pcX = "idle" \/ ReaderStep)]_vars
    /\ (pcS # "idle") ~> (pcS = "idle")
    /\ (pcR # "idle") ~> (pcR = "idle")
    /\ (pcW # "idle") ~> (pcW = "idle")
    /\ (pcX # "idle") ~> (pcX = "idle")

(* a try_send has returned its value from a full queue while the receiver is *)
(* stopped in the middle of taking a payload                                 *)
C14_Witness ==
    /\ pcS = "idle" /\ calls > 0 /\ sRet = NoSpaceLeftError(calls)
    /\ pcR = "r_taking"

(* a write has returned while the reader is stopped between its load and swap *)
C14_WitnessExchange ==
    /\ pcW = "idle" /\ writes = 2 /\ pcX = "x_swap"

(* C15: for the queue and for the triple buffer the store is released at    *)
(* most once and only when both handles are gone; once both are gone it is  *)
(* released; a handle that lives, and so any operation in progress, has the *)
(* whole store; the strong count is the number of living handles.           *)
C15_DropSafety ==
    /\ freed \in {0, 1}
    /\ xfreed \in {0, 1}
    /\ freed = 1 => (~sAlive /\ ~rAlive /\ DOMAIN mem = {})
    /\ xfreed = 1 => (~wAlive /\ ~xAlive /\ DOMAIN xmem = {})
    /\ (qstate = "live" /\ ~sAlive /\ ~rAlive) => freed = 1
    /\ (~wAlive /\ ~xAlive) => xfreed = 1
    /\ (sAlive \/ rAlive) => (freed = 0 /\ DOMAIN mem = 0..(capacity - 1))
    /\ (wAlive \/ xAlive) => (xfreed = 0 /\ DOMAIN xmem = Cells)
    /\ pcS # "idle" => sAlive
    /\ pcR # "idle" => rAlive
    /\ pcW # "idle" => wAlive
    /\ pcX # "idle" => xAlive
    /\ qstate = "live" => strong = (IF sAlive THEN 1 ELSE 0) + (IF rAlive THEN 1 ELSE 0)
    /\ xstrong = (IF wAlive THEN 1 ELSE 0) + (IF xAlive THEN 1 ELSE 0)

(* the receiver is dropped and the sender, alive, has filled the queue *)
C15_Witness ==
    /\ ~rAlive /\ sAlive /\ freed = 0
    /\ pcS = "idle" /\ calls > capacity /\ sRet = NoSpaceLeftError(calls)

(* a queue that was used is released, both handles dropped *)
C15_WitnessQueueReleased ==
    /\ freed = 1 /\ Len(received) > 0 /\ xfreed = 1

(* a triple buffer that was used is released, both handles dropped *)
C15_WitnessExchangeReleased ==
    /\ xfreed = 1 /\ xRet # None /\ freed = 1

(* the writer is dropped and the reader, alive, is in the middle of a read *)
C15_WitnessReaderAlone ==
    /\ ~wAlive /\ xAlive /\ pcX = "x_cloning" /\ xfreed = 0

-----------------------------------------------------------------------------
(* Properties of the initial-write guard *)

(* C22: a new guard reports false; after set_has_data it reports true; once *)
(* it reports true it reports true ever after; and a set_has_data on a set  *)
(* guard changes nothing of the guard.                                      *)
C22_GuardLatch ==
    /\ [](/\ gSets = 0 => (~has_data /\ \A i \in DOMAIN gLog : ~gLog[i])
          /\ gSets > 0 => has_data
          /\ \A i, j \in DOMAIN gLog : (i < j /\ gLog[i]) => gLog[j])
    /\ [][/\ has_data => has_data'
          /\ gSets' # gSets => has_data'
          /\ Len(gLog') > Len(gLog) => gLog'[Len(gLog')] = has_data
          /\ (gSets' # gSets /\ has_data)
               => (has_data' = has_data /\ gLog' = gLog)]_vars

(* has_data() was false on the new guard, set_has_data() was called twice, *)
(* and has_data() has been true twice since                                *)
C22_Witness ==
    /\ gSets = 2 /\ has_data
    /\ gLog = <<FALSE, TRUE, TRUE>>

-----------------------------------------------------------------------------
(* Properties of the construction *)

(* n is 2^k for some k >= 1 *)
IsPowerOfTwoFrom2(n) == \E k \in 1..UsizeBits : n = 2 ^ k

(* C11: capacity validation.  spsc(capacity) panics, producing no handle and *)
(* no store, for 0, 1 and every capacity that is not a power of two (3, 5,   *)
(* 6, 7, 9, 15, 17, 31, 33, ...); it succeeds for every power of two >= 2    *)
(* (2, 4, 8, 16, 32, ...), and then capacity() on both handles returns the   *)
(* requested value.                                                          *)
C11_CapacityValidation ==
    /\ qstate = "panicked" =>
           /\ ~IsPowerOfTwoFrom2(capacity)
           /\ ~sAlive /\ ~rAlive /\ strong = 0 /\ DOMAIN mem = {}
    /\ qstate = "live" =>
           /\ IsPowerOfTwoFrom2(capacity)
           /\ sAlive /\ rAlive
           /\ DOMAIN mem = 0..(capacity - 1)
           /\ sCap \in {None, Some(capacity)}
           /\ rCap \in {None, Some(capacity)}
    /\ capacity \in {0, 1, 3, 5, 6, 7, 9, 15, 17, 31, 33} => qstate # "live"
    /\ capacity \in {2, 4, 8, 16, 32} => qstate # "panicked"

(* spsc(32) succeeded and both handles report 32. *)
C11_Witness ==
    /\ capacity = 32
    /\ qstate = "live"
    /\ sCap = Some(32)
    /\ rCap = Some(32)

(* spsc(33) panicked. *)
C11_WitnessPanic ==
    /\ capacity = 33
    /\ qstate = "panicked"

=============================================================================
